---- MODULE Spec2Model ----
(***************************************************************************)
(* fs_usage-viz: the log parser (parseLine, parseLogFile), the time binner *)
(* (binByTime) and the filters of lib/logParser, modelled on character     *)
(* sequences and integer millisecond instants.                             *)
(*                                                                         *)
(* A string is a sequence of one-character strings.  A Date is the number  *)
(* of milliseconds since local midnight of day 0 (no DST shifts).  null is *)
(* the sequence Null; parseLine returns a sequence holding no entry (null) *)
(* or one entry.                                                           *)
(***************************************************************************)
EXTENDS Integers, Sequences, FiniteSets, TLC

VARIABLES
  clock,      \* the local calendar day that new Date() reads
  line,       \* SpecLine: the line handed to parseLine
  lastCall,   \* SpecLine: the latest parseLine call, <<>> before the first
  prevCall,   \* SpecLine: the parseLine call before it
  fileContent, \* SpecFile: the text handed to parseLogFile
  fileCall,   \* SpecFile: the parseLogFile call, <<>> before it
  entries,    \* SpecBin, SpecFilter: the entry collection
  binSizeMs,  \* SpecBin: the bin width, in thousandths of a second
  binCall,    \* SpecBin: the latest binByTime call, <<>> before the first
  fd,         \* SpecFilter: the file descriptor to keep
  filterCall, \* SpecFilter: filterByFileDescriptor(entries, fd), once called
  againCall,  \* SpecFilter: the same filter applied to filterCall's result
  pathPattern,   \* SpecCompose: the pattern handed to filterByPath
  caseSensitive, \* SpecCompose: filterByPath's third argument
  composeCall,   \* SpecCompose: the two filters applied in both orders
  statsCall,  \* SpecStats: the latest getSummaryStats call
  mapCall,    \* SpecMap: the latest buildFdToPathsMap call
  allEntries,      \* +page: allEntries
  filteredEntries, \* +page: filteredEntries
  fdFilter,        \* +page: fdFilter
  pathFilter,      \* +page: pathFilter
  binSize,         \* +page: binSize, in thousandths of a second
  filterTimeout,   \* +page: "undefined", or the state of the timer filterTimeout names
  changes,         \* +page: the user's actions so far
  opChart,    \* OperationChart: the bins of the chart on the canvas
  durChart,   \* DurationChart: the bins of the chart on the canvas
  typesChart, \* OperationTypesChart: the bars of the chart on the canvas
  showPoints, \* DurationChart: showPoints
  fileName,        \* +page: fileName
  isLoading,       \* +page: isLoading
  loadingProgress, \* +page: loadingProgress
  reading,    \* handleFileUpload: the files of the calls that await file.text()
  timers,     \* handleFileUpload: the files of the calls that await setTimeout(0), oldest first
  loads       \* handleFileUpload: the calls started so far

lineVars == <<line, lastCall, prevCall>>
fileVars == <<fileContent, fileCall>>
binVars == <<binSizeMs, binCall>>
filterVars == <<fd, filterCall, againCall>>
composeVars == <<pathPattern, caseSensitive, composeCall>>
pageVars == <<allEntries, filteredEntries, fdFilter, pathFilter, binSize, filterTimeout, changes>>
chartVars == <<opChart, durChart, typesChart, showPoints>>
loadVars == <<fileName, isLoading, loadingProgress, reading, timers, loads>>
restVars == <<composeVars, statsCall, mapCall, pageVars, chartVars, loadVars>>
vars == <<clock, lineVars, fileVars, entries, binVars, filterVars, restVars>>

\* ------------------------------------------------------------- bounds
MaxDay == 1      \* midnights the clock passes
MaxLines == 3    \* lines of a file
MaxBatch == 2    \* batch sizes tried beside the program's own
MaxEntries == 3  \* entries of a collection
MaxChanges == 4  \* actions of the user on the page
MaxLoads == 3    \* handleFileUpload calls

\* ------------------------------------------------------------- characters
Null == <<"null">>
Undefined == <<"undefined">>
NaN == -1

Min(S) == CHOOSE x \in S : \A y \in S : x <= y
Max(S) == CHOOSE x \in S : \A y \in S : x >= y

DigitChars == <<"0", "1", "2", "3", "4", "5", "6", "7", "8", "9">>
IsDigit(c) == c \in {"0", "1", "2", "3", "4", "5", "6", "7", "8", "9"}
IsHex(c) == IsDigit(c) \/ c \in {"a", "b", "c", "d", "e", "f", "A", "B", "C", "D", "E", "F"}
IsWs(c) == c \in {" ", "\t", "\n", "\r"}

\* The character classes of the parser's regular expressions.
Matches(c, class) ==
  CASE class = "\\d" -> IsDigit(c)
    [] class = "\\s" -> IsWs(c)
    [] class = "\\S" -> ~IsWs(c)
    [] class = "[0-9a-fA-F]" -> IsHex(c)
    [] class = "[^\\s\\/]" -> ~IsWs(c) /\ c # "/"
DigitVal(c) == (CHOOSE n \in 1..10 : DigitChars[n] = c) - 1

\* The last index of the longest run of characters of `class` that starts at i
\* (i - 1 when there is none): what a greedy X+ or X* consumes from i.
RECURSIVE RunEnd(_, _, _)
RunEnd(s, i, class) ==
  IF i >= 1 /\ i <= Len(s) /\ Matches(s[i], class) THEN RunEnd(s, i + 1, class) ELSE i - 1

\* The first index of the longest run of blanks of s that ends at i (i + 1
\* when there is none).
RECURSIVE BlankStart(_, _)
BlankStart(s, i) == IF i >= 1 /\ IsWs(s[i]) THEN BlankStart(s, i - 1) ELSE i + 1

\* trimEnd in place of trim: leading blanks stay.
trimEnd(s) == SubSeq(s, 1, BlankStart(s, Len(s)) - 1)

trim(s) == SubSeq(s, RunEnd(s, 1, "\\s") + 1, BlankStart(s, Len(s)) - 1)

slice(s, n) == SubSeq(s, n + 1, Len(s))

RECURSIVE split(_, _)
split(s, sep) ==
  LET at == {i \in 1..Len(s) : s[i] = sep}
  IN  IF at = {} THEN <<s>>
      ELSE <<SubSeq(s, 1, Min(at) - 1)>> \o split(SubSeq(s, Min(at) + 1, Len(s)), sep)

\* Array destructuring: the element, or undefined past the end.
At(parts, n) == IF n <= Len(parts) THEN parts[n] ELSE Undefined

RECURSIVE DigitsValue(_)
DigitsValue(s) ==
  IF s = <<>> THEN 0 ELSE 10 * DigitsValue(SubSeq(s, 1, Len(s) - 1)) + DigitVal(s[Len(s)])

\* parseInt of text that holds no sign and no leading blanks: the value of the
\* leading digits, NaN when there are none.
parseInt(s) ==
  IF s = <<>> \/ ~IsDigit(s[1]) THEN NaN
  ELSE DigitsValue(SubSeq(s, 1, RunEnd(s, 1, "\\d")))

\* parseFloat of <digits>.<digits>: the decimal value num / 10^scale, in lowest
\* terms of ten (0.000050 and 0.00005 are the same number).
RECURSIVE Decimal(_, _)
Decimal(num, scale) ==
  IF scale > 0 /\ num % 10 = 0 THEN Decimal(num \div 10, scale - 1)
  ELSE [num |-> num, scale |-> scale]

parseFloat(s) ==
  LET parts == split(s, ".")
  IN  Decimal(DigitsValue(parts[1] \o parts[2]), Len(parts[2]))

\* ------------------------------------------------------------- parseLine
\* /^(\d{2}:\d{2}:\d{2}\.\d+)/ : the matched text, <<>> for no match.
timestampMatch(s) ==
  LET d(i) == i <= Len(s) /\ IsDigit(s[i])
      c(i, ch) == i <= Len(s) /\ s[i] = ch
  IN  IF d(1) /\ d(2) /\ c(3, ":") /\ d(4) /\ d(5) /\ c(6, ":") /\ d(7) /\ d(8)
         /\ c(9, ".") /\ d(10)
      THEN SubSeq(s, 1, RunEnd(s, 10, "\\d"))
      ELSE <<>>

\* /^(\S+)/ : the matched text, <<>> for no match.
operationMatch(s) ==
  IF s # <<>> /\ ~IsWs(s[1]) THEN SubSeq(s, 1, RunEnd(s, 1, "\\S")) ELSE <<>>

\* /<key>=(\d+)/ at index i: the capture's last index, 0 for no match.
DecFieldAt(s, i, key) ==
  IF i + 2 <= Len(s) /\ s[i] = key /\ s[i + 1] = "=" /\ IsDigit(s[i + 2])
  THEN RunEnd(s, i + 2, "\\d") ELSE 0

\* /<key>=(0x[0-9a-fA-F]+)/ at index i: the capture's last index, 0 for no match.
HexFieldAt(s, i, key) ==
  IF i + 4 <= Len(s) /\ s[i] = key /\ s[i + 1] = "=" /\ s[i + 2] = "0" /\ s[i + 3] = "x"
     /\ IsHex(s[i + 4])
  THEN RunEnd(s, i + 4, "[0-9a-fA-F]") ELSE 0

\* /<key>=(0x[0-9a-fA-F]+|\d+)/ at index i: the hexadecimal alternative is
\* tried first.
HexOrDecFieldAt(s, i, key) ==
  IF HexFieldAt(s, i, key) > 0 THEN HexFieldAt(s, i, key) ELSE DecFieldAt(s, i, key)

FieldAt(s, i, key) ==
  CASE key = "F" -> DecFieldAt(s, i, key)
    [] key = "B" -> HexOrDecFieldAt(s, i, key)
    [] key = "D" -> HexFieldAt(s, i, key)

\* The capture of the leftmost match from index i on, Null for no match.
RECURSIVE FirstField(_, _, _)
FirstField(s, i, key) ==
  IF i > Len(s) THEN Null
  ELSE IF FieldAt(s, i, key) > 0 THEN SubSeq(s, i + 2, FieldAt(s, i, key))
  ELSE FirstField(s, i + 1, key)

\* /F=(\d+)/
fdMatch(s) == FirstField(s, 1, "F")

\* /B=(0x[0-9a-fA-F]+|\d+)/
bytesMatch(s) == FirstField(s, 1, "B")

\* /D=(0x[0-9a-fA-F]+)/
deviceMatch(s) == FirstField(s, 1, "D")

\* /(\d+\.\d+)\s+([^\s]+)/ tried at index a, without the \s*$ that ties the
\* pair to the end of the line.
DurationAtAnywhere(s, a) ==
  LET p == RunEnd(s, a, "\\d") + 1
      e == RunEnd(s, p + 1, "\\d")
      w == RunEnd(s, e + 1, "\\s")
      u == RunEnd(s, w + 1, "\\S")
      ok == p > a /\ p <= Len(s) /\ s[p] = "." /\ e > p /\ w > e /\ u > w
  IN  [ok    |-> ok,
       index |-> a,
       dur   |-> IF ok THEN SubSeq(s, a, e) ELSE <<>>,
       proc  |-> IF ok THEN SubSeq(s, w + 1, u) ELSE <<>>]

\* /(\d+\.\d+)\s+([^\s]+)\s*$/ tried at index a.  Every quantifier is followed
\* by a character it cannot match, so each run is the longest one.
DurationAt(s, a) ==
  LET p == RunEnd(s, a, "\\d") + 1
      e == RunEnd(s, p + 1, "\\d")
      w == RunEnd(s, e + 1, "\\s")
      u == RunEnd(s, w + 1, "\\S")
      z == RunEnd(s, u + 1, "\\s")
      ok == p > a /\ p <= Len(s) /\ s[p] = "." /\ e > p /\ w > e /\ u > w /\ z = Len(s)
  IN  [ok    |-> ok,
       index |-> a,
       dur   |-> IF ok THEN SubSeq(s, a, e) ELSE <<>>,
       proc  |-> IF ok THEN SubSeq(s, w + 1, u) ELSE <<>>]

\* The leftmost match from index a on; ok is FALSE for no match.
RECURSIVE DurationFrom(_, _)
DurationFrom(s, a) ==
  IF a > Len(s) THEN [ok |-> FALSE, index |-> 0, dur |-> <<>>, proc |-> <<>>]
  ELSE IF IsDigit(s[a]) /\ DurationAt(s, a).ok THEN DurationAt(s, a)
  ELSE DurationFrom(s, a + 1)

durationMatch(s) == DurationFrom(s, 1)

\* (?:\s+[^\s\/]+)*? from after index k: the indices the group can end at, in
\* the order the lazy quantifier tries them (fewest repetitions first).
RECURSIVE ChainEnds(_, _)
ChainEnds(s, k) ==
  LET a == RunEnd(s, k + 1, "\\s")
      m == RunEnd(s, a + 1, "[^\\s\\/]")
  IN  IF a > k /\ m > a THEN {k} \cup ChainEnds(s, m) ELSE {k}

\* (?:\s+\d+\.\d+\s+) at index p.
TailAt(s, p) ==
  LET a == RunEnd(s, p, "\\s")
      b == RunEnd(s, a + 1, "\\d")
      c == RunEnd(s, b + 2, "\\d")
      d == RunEnd(s, c + 1, "\\s")
  IN  a >= p /\ b > a /\ b + 1 <= Len(s) /\ s[b + 1] = "." /\ c > b + 1 /\ d > c

\* (\S*\/[^\s]+(?:\s+[^\s\/]+)*?)(?:\s+\d+\.\d+\s+) tried at index i: the
\* indices group 1 can end at.  \S*\/[^\s]+ stays inside the blank-free word
\* at i, needs a "/" with a character after it, and ends where the word ends
\* (what follows starts with \s+).
PathEndsAt(s, i) ==
  LET k == RunEnd(s, i, "\\S")
  IN  IF \E j \in i..(k - 1) : s[j] = "/"
      THEN {m \in ChainEnds(s, k) : TailAt(s, m + 1)}
      ELSE {}

\* Group 1 of the leftmost match from index i on, Null for no match.
RECURSIVE PathFrom(_, _)
PathFrom(s, i) ==
  IF i > Len(s) THEN Null
  ELSE IF ~IsWs(s[i]) /\ PathEndsAt(s, i) # {} THEN SubSeq(s, i, Min(PathEndsAt(s, i)))
  ELSE PathFrom(s, i + 1)

pathMatch(s) == PathFrom(s, 1)

\* new Date() on local day `day`, then setHours/Minutes/Seconds/Milliseconds:
\* every time-of-day field is overwritten, the calendar day is the clock's.
DayMs == 86400000
DateOf(day, h, mi, sec, ms) ==
  IF NaN \in {h, mi, sec, ms} THEN NaN
  ELSE day * DayMs + h * 3600000 + mi * 60000 + sec * 1000 + ms

\* let process = 'unknown'
UNKNOWN == <<"u", "n", "k", "n", "o", "w", "n">>

Returned(e) == [raised |-> FALSE, entry |-> e]
Raised == [raised |-> TRUE, entry |-> <<>>]

parseLine(rawLine, day) ==
  LET line0 == trim(rawLine)
      timestampStr == timestampMatch(line0)
      hms == split(timestampStr, ":")
      seconds == At(hms, 3)
      secParts == split(seconds, ".")
      microsec == At(secParts, 2)
      timestamp == DateOf(day, parseInt(At(hms, 1)), parseInt(At(hms, 2)),
                          parseInt(At(secParts, 1)),
                          parseInt(SubSeq(microsec, 1, IF Len(microsec) < 3 THEN Len(microsec) ELSE 3)))
      line1 == trim(slice(line0, Len(timestampStr)))
      operation == operationMatch(line1)
      line2 == trim(slice(line1, Len(operation)))
      dm == durationMatch(line2)
      pm == pathMatch(line2)
  IN  IF line0 = <<>> THEN Returned(<<>>)
      ELSE IF timestampStr = <<>> THEN Returned(<<>>)
      ELSE IF seconds = Undefined \/ microsec = Undefined THEN Raised
      ELSE IF operation = <<>> THEN Returned(<<>>)
      ELSE Returned(<<[timestamp      |-> timestamp,
                       operation      |-> operation,
                       fileDescriptor |-> fdMatch(line2),
                       bytes          |-> bytesMatch(line2),
                       device         |-> deviceMatch(line2),
                       path           |-> IF pm = Null THEN Null ELSE trim(pm),
                       duration       |-> IF ~dm.ok THEN Decimal(0, 0) ELSE parseFloat(dm.dur),
                       process        |-> IF ~dm.ok THEN UNKNOWN ELSE dm.proc]>>)

\* ------------------------------------------------------------- filterByPath
UpperChars == <<"A", "B", "C", "D", "E", "F", "G", "H", "I", "J", "K", "L", "M", "N", "O", "P", "Q", "R", "S", "T", "U", "V", "W", "X", "Y", "Z">>
LowerChars == <<"a", "b", "c", "d", "e", "f", "g", "h", "i", "j", "k", "l", "m", "n", "o", "p", "q", "r", "s", "t", "u", "v", "w", "x", "y", "z">>
toLowerCaseChar(c) ==
  IF \E i \in 1..26 : UpperChars[i] = c
  THEN LowerChars[CHOOSE i \in 1..26 : UpperChars[i] = c]
  ELSE c
toLowerCase(s) == [i \in 1..Len(s) |-> toLowerCaseChar(s[i])]

\* String.prototype.includes
includes(s, p) == \E i \in 0..(Len(s) - Len(p)) : SubSeq(s, i + 1, i + Len(p)) = p

\* A string | null read as a condition: null and "" are false.
Truthy(s) == s # Null /\ s # <<>>

\* filterByPath that compares the path as it is written with the lowered
\* pattern.
RECURSIVE filterByPathUnfolded(_, _, _)
filterByPathUnfolded(es, pattern, sensitive) ==
  IF es = <<>> THEN <<>>
  ELSE LET e == Head(es)
           keep == Truthy(e.path)
                   /\ includes(e.path, IF sensitive THEN pattern ELSE toLowerCase(pattern))
       IN  (IF keep THEN <<e>> ELSE <<>>) \o filterByPathUnfolded(Tail(es), pattern, sensitive)

RECURSIVE filterByPath(_, _, _)
filterByPath(es, pattern, sensitive) ==
  IF es = <<>> THEN <<>>
  ELSE LET e == Head(es)
           keep == IF sensitive
                   THEN Truthy(e.path) /\ includes(e.path, pattern)
                   ELSE Truthy(e.path) /\ includes(toLowerCase(e.path), toLowerCase(pattern))
       IN  (IF keep THEN <<e>> ELSE <<>>) \o filterByPath(Tail(es), pattern, sensitive)

\* ------------------------------------------------------------- parseLogFile
batchSize == 5000

\* The clock's day when the line at 0-based index n is parsed: midnight may
\* pass once during a call, before the line at index roll.
DayAt(day, roll, n) == IF n < roll THEN day ELSE day + 1

\* for (const line of batch): parseLine, push; an exception ends the call.
RECURSIVE ParseBatch(_, _, _, _, _)
ParseBatch(batch, first, day, roll, acc) ==
  IF batch = <<>> \/ acc.raised THEN acc
  ELSE LET r == parseLine(Head(batch), DayAt(day, roll, first))
       IN  ParseBatch(Tail(batch), first + 1, day, roll,
                      IF r.raised THEN [raised |-> TRUE, entries |-> <<>>]
                      ELSE [raised |-> FALSE, entries |-> acc.entries \o r.entry])

\* The batch loop with batches that stop one line short of the next one:
\* lines.slice(i, i + batchSize - 1) for batches of two lines or more.
RECURSIVE BatchLoopShort(_, _, _, _, _, _)
BatchLoopShort(lines, i, size, day, roll, acc) ==
  IF ~(i < Len(lines)) \/ acc.raised THEN acc
  ELSE LET last == IF size > 1 THEN i + size - 1 ELSE i + size
           upto == IF last < Len(lines) THEN last ELSE Len(lines)
           batch == SubSeq(lines, i + 1, upto)
       IN  BatchLoopShort(lines, i + size, size, day, roll,
                          ParseBatch(batch, i, day, roll, acc))

\* for (let i = 0; i < lines.length; i += batchSize)
RECURSIVE BatchLoop(_, _, _, _, _, _)
BatchLoop(lines, i, size, day, roll, acc) ==
  IF ~(i < Len(lines)) \/ acc.raised THEN acc
  ELSE LET upto == IF i + size < Len(lines) THEN i + size ELSE Len(lines)
           batch == SubSeq(lines, i + 1, upto)
       IN  BatchLoop(lines, i + size, size, day, roll,
                     ParseBatch(batch, i, day, roll, acc))

parseLogFileBy(content, size, day, roll) ==
  BatchLoop(split(content, "\n"), 0, size, day, roll, [raised |-> FALSE, entries |-> <<>>])

parseLogFile(content, day, roll) == parseLogFileBy(content, batchSize, day, roll)

\* ------------------------------------------------------------- numbers
\* An IEEE 754 double above zero is [m, e] with value m * 2^e, where m has
\* exactly 53 bits and is held as four limbs of 14 bits, most significant
\* first.  Results are rounded to nearest, ties to even.
Limb == 128 * 128
BigZero == <<0, 0, 0, 0>>
BigShl1(x) ==
  LET d4 == 2 * x[4]
      d3 == 2 * x[3] + d4 \div Limb
      d2 == 2 * x[2] + d3 \div Limb
      d1 == 2 * x[1] + d2 \div Limb
  IN  <<d1, d2 % Limb, d3 % Limb, d4 % Limb>>
BigShr1(x) ==
  <<x[1] \div 2,
    (x[1] % 2) * (Limb \div 2) + x[2] \div 2,
    (x[2] % 2) * (Limb \div 2) + x[3] \div 2,
    (x[3] % 2) * (Limb \div 2) + x[4] \div 2>>
BigAdd1(x) ==
  LET d4 == x[4] + 1
      d3 == x[3] + d4 \div Limb
      d2 == x[2] + d3 \div Limb
      d1 == x[1] + d2 \div Limb
  IN  <<d1, d2 % Limb, d3 % Limb, d4 % Limb>>
BigGeq(x, y) ==
  \/ x[1] > y[1]
  \/ x[1] = y[1] /\ x[2] > y[2]
  \/ x[1] = y[1] /\ x[2] = y[2] /\ x[3] > y[3]
  \/ x[1] = y[1] /\ x[2] = y[2] /\ x[3] = y[3] /\ x[4] >= y[4]
\* x - y for x >= y.
BigSub(x, y) ==
  LET d4 == x[4] - y[4]
      b4 == IF d4 < 0 THEN 1 ELSE 0
      d3 == x[3] - y[3] - b4
      b3 == IF d3 < 0 THEN 1 ELSE 0
      d2 == x[2] - y[2] - b3
      b2 == IF d2 < 0 THEN 1 ELSE 0
      d1 == x[1] - y[1] - b2
  IN  <<d1, d2 + b2 * Limb, d3 + b3 * Limb, d4 + b4 * Limb>>
BigOfInt(n) == <<0, n \div (Limb * Limb), (n \div Limb) % Limb, n % Limb>>
\* 2^53 as limbs: a mantissa that rounding carried out of its 53 bits.
BigTop == <<2048, 0, 0, 0>>

\* Round the 53-bit quotient m to nearest, ties to even, given the next
\* quotient bit and whether anything is left after it.
RoundDouble(m, e, roundBit, sticky) ==
  LET up == roundBit = 1 /\ (sticky \/ m[4] % 2 = 1)
      m1 == IF up THEN BigAdd1(m) ELSE m
  IN  IF m1 = BigTop THEN [m |-> BigShr1(m1), e |-> e + 1] ELSE [m |-> m1, e |-> e]

\* n / k and its exponent scaled so that k <= n < 2k.
RECURSIVE Scaled(_, _, _)
Scaled(n, k, e) ==
  IF n < k THEN Scaled(2 * n, k, e - 1)
  ELSE IF n >= 2 * k THEN Scaled(n, 2 * k, e + 1)
  ELSE [n |-> n, k |-> k, e |-> e]

\* Long division of integers by k: st.count more quotient bits after st.m,
\* with st.rem the remainder so far.
RECURSIVE QuotientBits(_, _)
QuotientBits(st, k) ==
  IF st.count = 0 THEN st
  ELSE LET r2 == 2 * st.rem
           bit == IF r2 >= k THEN 1 ELSE 0
           m2 == BigShl1(st.m)
       IN  QuotientBits([m |-> <<m2[1], m2[2], m2[3], m2[4] + bit>>,
                         rem |-> r2 - bit * k, count |-> st.count - 1], k)

\* The double nearest to n / k, for integers n > 0 and k > 0: the value of the
\* Number n / k, and of the decimal literal that n / k writes.
DoubleOfRatio(n, k) ==
  LET s == Scaled(n, k, 0)
      q == QuotientBits([m |-> BigOfInt(1), rem |-> s.n - s.k, count |-> 52], s.k)
      r2 == 2 * q.rem
      roundBit == IF r2 >= s.k THEN 1 ELSE 0
  IN  RoundDouble(q.m, s.e - 52, roundBit, r2 - roundBit * s.k # 0)

\* Long division of mantissas by k: st.count more quotient bits after st.m,
\* with st.rem the remainder so far.
RECURSIVE BigQuotientBits(_, _)
BigQuotientBits(st, k) ==
  IF st.count = 0 THEN st
  ELSE LET r2 == BigShl1(st.rem)
           bit == IF BigGeq(r2, k) THEN 1 ELSE 0
           m2 == BigShl1(st.m)
       IN  BigQuotientBits([m |-> <<m2[1], m2[2], m2[3], m2[4] + bit>>,
                            rem |-> IF bit = 1 THEN BigSub(r2, k) ELSE r2,
                            count |-> st.count - 1], k)

\* a / b on doubles above zero.
DoubleDiv(a, b) ==
  LET whole == BigGeq(a.m, b.m)
      num == IF whole THEN a.m ELSE BigShl1(a.m)
      q == BigQuotientBits([m |-> BigOfInt(1), rem |-> BigSub(num, b.m), count |-> 52], b.m)
      r2 == BigShl1(q.rem)
      roundBit == IF BigGeq(r2, b.m) THEN 1 ELSE 0
      left == IF roundBit = 1 THEN BigSub(r2, b.m) ELSE r2
  IN  RoundDouble(q.m, a.e - b.e - 52 - (IF whole THEN 0 ELSE 1), roundBit, left # BigZero)

RECURSIVE BigShr(_, _)
BigShr(x, n) == IF n = 0 \/ x = BigZero THEN x ELSE BigShr(BigShr1(x), n - 1)
RECURSIVE BigShl(_, _)
BigShl(x, n) == IF n = 0 \/ x = BigZero THEN x ELSE BigShl(BigShl1(x), n - 1)
IntOfBig(x) == (x[2] * Limb + x[3]) * Limb + x[4]

\* Math.floor of a double above zero and below 2^31.
DoubleFloor(x) == IF -x.e > 52 THEN 0 ELSE IntOfBig(BigShr(x.m, -x.e))
\* Whether a double above zero and below 2^31 is an integer.
DoubleIsInt(x) == -x.e <= 52 /\ BigShl(BigShr(x.m, -x.e), -x.e) = x.m

\* ------------------------------------------------------------- binByTime
\* entries.reduce((min, e) => (e.timestamp < min ? e.timestamp : min), entries[0].timestamp)
RECURSIVE ReduceMin(_, _)
ReduceMin(es, min) ==
  IF es = <<>> THEN min
  ELSE ReduceMin(Tail(es), IF Head(es).timestamp < min THEN Head(es).timestamp ELSE min)

\* Math.floor(elapsed / binSizeSeconds) for elapsed = elapsedMs / 1000 and
\* binSizeSeconds the Number widthMs / 1000, widthMs # 0.  The quotient of a
\* negative width is the negated quotient of its absolute value.
BinIndex(elapsedMs, widthMs) ==
  IF elapsedMs = 0 THEN 0
  ELSE LET q == DoubleDiv(DoubleOfRatio(elapsedMs, 1000),
                          DoubleOfRatio(IF widthMs < 0 THEN -widthMs ELSE widthMs, 1000))
       IN  IF widthMs > 0 THEN DoubleFloor(q)
           ELSE -(DoubleFloor(q) + (IF DoubleIsInt(q) THEN 0 ELSE 1))

\* Bins aligned to the epoch instead of the first entry:
\* Math.floor(timestamp / width) * width.
BinStartTimeAligned(minTime, elapsedMs, widthMs) ==
  IF widthMs = 0 THEN NaN
  ELSE IF widthMs > 0 THEN ((minTime + elapsedMs) \div widthMs) * widthMs
  ELSE minTime + BinIndex(elapsedMs, widthMs) * widthMs

\* minTime.getTime() + binIndex * binSizeSeconds * 1000.  A width of zero
\* makes the index NaN or Infinity and the product NaN.  With minTime a date
\* of this century the sum rounds to the integer minTime + binIndex * widthMs.
BinStartTime(minTime, elapsedMs, widthMs) ==
  IF widthMs = 0 THEN NaN ELSE minTime + BinIndex(elapsedMs, widthMs) * widthMs

\* A binner that sets the bin to [entry] instead of pushing to it.
PushToBinOverwriting(bins, start, entry) ==
  IF \E i \in 1..Len(bins) : bins[i].start = start
  THEN [i \in 1..Len(bins) |->
          IF bins[i].start = start THEN [start |-> start, entries |-> <<entry>>] ELSE bins[i]]
  ELSE Append(bins, [start |-> start, entries |-> <<entry>>])

\* if (!bins.has(binStartTime)) bins.set(binStartTime, []);
\* bins.get(binStartTime).push(entry)
\* A Map keeps its keys in insertion order and holds NaN as one key.
PushToBin(bins, start, entry) ==
  IF \E i \in 1..Len(bins) : bins[i].start = start
  THEN [i \in 1..Len(bins) |->
          IF bins[i].start = start
          THEN [start |-> start, entries |-> Append(bins[i].entries, entry)]
          ELSE bins[i]]
  ELSE Append(bins, [start |-> start, entries |-> <<entry>>])

RECURSIVE BinLoop(_, _, _, _)
BinLoop(es, minTime, widthMs, bins) ==
  IF es = <<>> THEN bins
  ELSE BinLoop(Tail(es), minTime, widthMs,
               PushToBin(bins, BinStartTime(minTime, Head(es).timestamp - minTime, widthMs),
                         Head(es)))

\* The returned Map<Date, LogEntry[]> as the sequence of its [start, entries]
\* pairs, start being the key's getTime().  No statement of it throws.
binByTime(es, widthMs) ==
  IF Len(es) = 0 THEN [raised |-> FALSE, bins |-> <<>>]
  ELSE [raised |-> FALSE,
        bins   |-> BinLoop(es, ReduceMin(es, es[1].timestamp), widthMs, <<>>)]

\* ------------------------------------------------------------- filters
\* A filter that compares the descriptors as numbers.
RECURSIVE filterByFileDescriptorLoose(_, _)
filterByFileDescriptorLoose(es, f) ==
  IF es = <<>> THEN <<>>
  ELSE (IF Head(es).fileDescriptor = f
           \/ (Head(es).fileDescriptor # Null /\ f # Null
               /\ parseInt(Head(es).fileDescriptor) = parseInt(f))
        THEN <<Head(es)>> ELSE <<>>)
       \o filterByFileDescriptorLoose(Tail(es), f)

\* entries.filter((e) => e.fileDescriptor === fd)
RECURSIVE filterByFileDescriptor(_, _)
filterByFileDescriptor(es, f) ==
  IF es = <<>> THEN <<>>
  ELSE (IF Head(es).fileDescriptor = f THEN <<Head(es)>> ELSE <<>>)
       \o filterByFileDescriptor(Tail(es), f)

\* ------------------------------------------------------------- getSummaryStats
\* entries.reduce((max, e) => (e.timestamp > max ? e.timestamp : max), entries[0].timestamp)
RECURSIVE ReduceMax(_, _)
ReduceMax(es, max) ==
  IF es = <<>> THEN max
  ELSE ReduceMax(Tail(es), IF Head(es).timestamp > max THEN Head(es).timestamp ELSE max)

\* The keys the three forEach loops count: every operation, the truthy file
\* descriptors, the truthy paths.
OperationKeys(es) == [i \in 1..Len(es) |-> es[i].operation]
RECURSIVE FdKeys(_)
FdKeys(es) ==
  IF es = <<>> THEN <<>>
  ELSE (IF Truthy(Head(es).fileDescriptor) THEN <<Head(es).fileDescriptor>> ELSE <<>>)
       \o FdKeys(Tail(es))
RECURSIVE PathKeys(_)
PathKeys(es) ==
  IF es = <<>> THEN <<>>
  ELSE (IF Truthy(Head(es).path) THEN <<Head(es).path>> ELSE <<>>) \o PathKeys(Tail(es))

\* A counting loop that sets a key met again to 1: counts.set(k, 1).
RECURSIVE CountIntoOnce(_, _)
CountIntoOnce(keys, table) ==
  IF keys = <<>> THEN table
  ELSE LET at == {i \in 1..Len(table) : table[i].key = Head(keys)}
       IN  CountIntoOnce(Tail(keys),
                         IF at = {} THEN Append(table, [key |-> Head(keys), count |-> 1])
                         ELSE [table EXCEPT ![CHOOSE i \in at : TRUE].count = 1])

\* counts.set(k, (counts.get(k) || 0) + 1) for every key: the Map as the
\* sequence of its [key, count] pairs, in insertion order.
RECURSIVE CountInto(_, _)
CountInto(keys, table) ==
  IF keys = <<>> THEN table
  ELSE LET at == {i \in 1..Len(table) : table[i].key = Head(keys)}
       IN  CountInto(Tail(keys),
                     IF at = {} THEN Append(table, [key |-> Head(keys), count |-> 1])
                     ELSE [table EXCEPT ![CHOOSE i \in at : TRUE].count = @ + 1])

\* A sort by descending count that puts a pair before the pairs of equal
\* count that precede it.
RECURSIVE sortUnstable(_)
sortUnstable(table) ==
  IF table = <<>> THEN <<>>
  ELSE LET x == table[Len(table)]
           sorted == sortUnstable(SubSeq(table, 1, Len(table) - 1))
           n == Cardinality({i \in 1..Len(sorted) : sorted[i].count > x.count})
       IN  SubSeq(sorted, 1, n) \o <<x>> \o SubSeq(sorted, n + 1, Len(sorted))

\* .sort((a, b) => b[1] - a[1]): Array.prototype.sort is stable, pairs of
\* equal count keep their order.
RECURSIVE sort(_)
sort(table) ==
  IF table = <<>> THEN <<>>
  ELSE LET x == table[Len(table)]
           sorted == sort(SubSeq(table, 1, Len(table) - 1))
           n == Cardinality({i \in 1..Len(sorted) : sorted[i].count >= x.count})
       IN  SubSeq(sorted, 1, n) \o <<x>> \o SubSeq(sorted, n + 1, Len(sorted))

\* .slice(0, 10)
TopCount == 10
Top(table) == SubSeq(table, 1, IF Len(table) < TopCount THEN Len(table) ELSE TopCount)

\* The object getSummaryStats returns for a collection that is not empty
\* (the duration statistics are left out: no count depends on them).
SummaryOf(es) ==
  LET operationCounts == CountInto(OperationKeys(es), <<>>)
      fdCounts == CountInto(FdKeys(es), <<>>)
      pathCounts == CountInto(PathKeys(es), <<>>)
      minTime == ReduceMin(es, es[1].timestamp)
      maxTime == ReduceMax(es, es[1].timestamp)
  IN  [totalEntries       |-> Len(es),
       minTime            |-> minTime,
       maxTime            |-> maxTime,
       durationMs         |-> maxTime - minTime,
       operationCounts    |-> Top(sort(operationCounts)),
       allOperationCounts |-> sort(operationCounts),
       fdCounts           |-> Top(sort(fdCounts)),
       allFdCounts        |-> sort(fdCounts),
       pathCounts         |-> Top(sort(pathCounts)),
       allPathCounts      |-> sort(pathCounts),
       uniqueOperations   |-> Len(operationCounts),
       uniqueFds          |-> Len(fdCounts),
       entriesWithPath    |-> Len(pathCounts)]

\* getSummaryStats that answers an empty collection with an object of zeros.
getSummaryStatsZeroed(es) ==
  IF Len(es) = 0
  THEN <<[totalEntries |-> 0, minTime |-> 0, maxTime |-> 0, durationMs |-> 0,
          operationCounts |-> <<>>, allOperationCounts |-> <<>>,
          fdCounts |-> <<>>, allFdCounts |-> <<>>,
          pathCounts |-> <<>>, allPathCounts |-> <<>>,
          uniqueOperations |-> 0, uniqueFds |-> 0, entriesWithPath |-> 0]>>
  ELSE <<SummaryOf(es)>>

\* null is the empty sequence, an object the sequence that holds it.
getSummaryStats(es) == IF Len(es) = 0 THEN <<>> ELSE <<SummaryOf(es)>>

\* ------------------------------------------------------------- buildFdToPathsMap
\* key.split('::'): the texts between the occurrences of "::", found from the
\* left, none overlapping another.
RECURSIVE splitColons(_)
splitColons(s) ==
  LET at == {i \in 1..(Len(s) - 1) : s[i] = ":" /\ s[i + 1] = ":"}
  IN  IF at = {} THEN <<s>>
      ELSE <<SubSeq(s, 1, Min(at) - 1)>> \o splitColons(SubSeq(s, Min(at) + 2, Len(s)))

\* A key that holds the descriptor alone.
KeyOfFd(e) == <<":", ":">> \o e.fileDescriptor

\* `${entry.process}::${entry.fileDescriptor}`
KeyOf(e) == e.process \o <<":", ":">> \o e.fileDescriptor

\* The entry counted in the Map of its key: a PathInfo is added, or the one of
\* its path gets count + 1 and firstSeen, lastSeen widened.
CountPath(pathMap, e) ==
  IF \E i \in 1..Len(pathMap) : pathMap[i].path = e.path
  THEN [i \in 1..Len(pathMap) |->
          IF pathMap[i].path = e.path
          THEN [path      |-> e.path,
                count     |-> pathMap[i].count + 1,
                firstSeen |-> IF e.timestamp < pathMap[i].firstSeen THEN e.timestamp
                              ELSE pathMap[i].firstSeen,
                lastSeen  |-> IF e.timestamp > pathMap[i].lastSeen THEN e.timestamp
                              ELSE pathMap[i].lastSeen]
          ELSE pathMap[i]]
  ELSE Append(pathMap, [path |-> e.path, count |-> 1,
                        firstSeen |-> e.timestamp, lastSeen |-> e.timestamp])

\* for (const entry of entries): processFdMap as the sequence of its
\* [key, pathMap] pairs, in insertion order.
RECURSIVE GroupLoop(_, _)
GroupLoop(es, groups) ==
  IF es = <<>> THEN groups
  ELSE LET e == Head(es)
           key == KeyOf(e)
       IN  IF ~Truthy(e.fileDescriptor) \/ ~Truthy(e.path) THEN GroupLoop(Tail(es), groups)
           ELSE IF \E i \in 1..Len(groups) : groups[i].key = key
           THEN GroupLoop(Tail(es),
                          [i \in 1..Len(groups) |->
                             IF groups[i].key = key
                             THEN [key |-> key, pathMap |-> CountPath(groups[i].pathMap, e)]
                             ELSE groups[i]])
           ELSE GroupLoop(Tail(es),
                          Append(groups, [key |-> key, pathMap |-> CountPath(<<>>, e)]))

\* The returned Map as the sequence of its values with their keys: process and
\* fd are the first two parts of the split key, paths the PathInfos by
\* descending count.
buildFdToPathsMap(es) ==
  LET groups == GroupLoop(es, <<>>)
  IN  [i \in 1..Len(groups) |->
         [key     |-> groups[i].key,
          process |-> At(splitColons(groups[i].key), 1),
          fd      |-> At(splitColons(groups[i].key), 2),
          paths   |-> sort(groups[i].pathMap)]]

\* ------------------------------------------------------------- the page and its charts
\* The callback of applyFilters' timer, started from the list on display
\* instead of allEntries.
TimerCallbackNarrowing(all, shown, f, p) ==
  LET byFd == IF Truthy(f) THEN filterByFileDescriptor(shown, f) ELSE shown
  IN  IF Truthy(trim(p)) THEN filterByPath(byFd, trim(p), FALSE) ELSE byFd

\* The callback of applyFilters' timer (+page.svelte lines 72..80): the value
\* it leaves in filteredEntries.
TimerCallback(all, shown, f, p) ==
  LET byFd == IF Truthy(f) THEN filterByFileDescriptor(all, f) ELSE all
  IN  IF Truthy(trim(p)) THEN filterByPath(byFd, trim(p), FALSE) ELSE byFd

\* The reactive statement with fdFilter alone as its condition.
ReactiveFilterFdOnly(all, shown, f, p, timeout) ==
  IF Truthy(f) THEN [filteredEntries |-> shown, filterTimeout |-> "pending", assigned |-> FALSE]
  ELSE IF Len(all) > 0 /\ f = <<>> /\ p = <<>>
  THEN [filteredEntries |-> all, filterTimeout |-> timeout, assigned |-> TRUE]
  ELSE [filteredEntries |-> shown, filterTimeout |-> timeout, assigned |-> FALSE]

\* $: if (fdFilter || pathFilter) applyFilters(); else if (...) filteredEntries
\* = allEntries.  applyFilters clears the timer filterTimeout names and starts
\* one.  assigned tells whether filteredEntries was assigned.
ReactiveFilter(all, shown, f, p, timeout) ==
  IF Truthy(f) \/ Truthy(p)
  THEN [filteredEntries |-> shown, filterTimeout |-> "pending", assigned |-> FALSE]
  ELSE IF Len(all) > 0 /\ f = <<>> /\ p = <<>>
  THEN [filteredEntries |-> all, filterTimeout |-> timeout, assigned |-> TRUE]
  ELSE [filteredEntries |-> shown, filterTimeout |-> timeout, assigned |-> FALSE]

\* Array.from(bins.entries()).sort((a, b) => a[0].getTime() - b[0].getTime())
RECURSIVE sortedBins(_)
sortedBins(bins) ==
  IF bins = <<>> THEN <<>>
  ELSE LET x == bins[Len(bins)]
           sorted == sortedBins(SubSeq(bins, 1, Len(bins) - 1))
           n == Cardinality({i \in 1..Len(sorted) : sorted[i].start <= x.start})
       IN  SubSeq(sorted, 1, n) \o <<x>> \o SubSeq(sorted, n + 1, Len(sorted))

\* updateChart of OperationChart and of DurationChart: nothing for an empty
\* collection, else the old chart is destroyed and one of the sorted bins
\* made.  A chart is the sequence that holds its bins, no chart is <<>>.
updateChart(chart, es, widthMs) ==
  IF Len(es) = 0 THEN chart ELSE <<sortedBins(binByTime(es, widthMs).bins)>>

\* updateChart of OperationTypesChart (lines 23..80): nothing for an empty
\* collection, else the old chart is destroyed and one made of the ten most
\* frequent operations with their counts.
updateTypesChart(chart, es) ==
  IF Len(es) = 0 THEN chart ELSE <<Top(sort(CountInto(OperationKeys(es), <<>>)))>>

\* ------------------------------------------------------------- inputs
Cat(a, b) == {x \o y : x \in a, y \in b}

Stamps == {<<"1", "2", ":", "0", "0", ":", "0", "0", ".", "1", "2", "3", "4", "5", "6">>,
           <<"2", "3", ":", "5", "9", ":", "5", "9", ".", "9">>}
BadStamps == {<<"1", ":", "0", "0", ":", "0", "0", ".", "1">>,
              <<"1", "2", ":", "0", "0", ":", "0", "0", ".">>,
              <<"1", "2", ":", "0", "0", ":", "0", "0">>,
              <<"g", "a", "r", "b", "a", "g", "e", " ", "t", "e", "x", "t">>,
              <<>>}
Leads == {<<>>, <<" ">>, <<"\t">>}
Ops == {<<" ", "o", "p", "e", "n">>,
        <<"o", "p", "e", "n">>}
BadOps == {<<>>, <<" ">>}
Fields == {<<>>,
           <<" ", "F", "=", "3">>,
           <<" ", " ", "F", "=", "1", "2", " ", "B", "=", "0", "x", "1", "f", " ", "D", "=", "0", "x", "0", "a", "1">>}
Paths == {<<>>,
          <<" ", "/", "U", "s", "e", "r", "s", "/", "x", "/", "f", "i", "l", "e", ".", "t", "x", "t">>,
          <<" ", "/", "U", "s", "e", "r", "s", "/", "x", "/", "M", "y", " ", "D", "o", "c", "s", "/", "f", "i", "l", "e", ".", "t", "x", "t">>,
          <<" ", "/">>,
          <<" ", "p", "r", "i", "v", "a", "t", "e", "/", "t", "m", "p">>,
          <<" ", "/", "t", "m", "p", "/", "B", "=", "7">>,
          <<" ", "/", "a", " ", "b">>}
Tails == {<<>>,
          <<" ", "0", ".", "0", "0", "0", "0", "5", "0", " ", "p", "r", "o", "c", "e", "s", "s", "A">>,
          <<" ", "0", ".", "0", "0", "0", "0", "5", "0">>,
          <<" ", "1", "2", ".", "5", " ", " ", "p", ":", ":", "1", " ">>,
          <<" ", "0", ".", "5", " ", "1", ".", "5", " ", "/", "x">>,
          <<" ", "0", ".", "5", " ", "G", "o", "o", "g", "l", "e", " ", "C", "h", "r", "o", "m", "e">>}
Rests == {<<>>,
          <<" ", "F", "=", "3", " ", "/", "U", "s", "e", "r", "s", "/", "x", "/", "f", "i", "l", "e", ".", "t", "x", "t", " ", "0", ".", "0", "0", "0", "0", "5", "0", " ", "p", "r", "o", "c", "e", "s", "s", "A">>,
          <<" ", "/", "a">>}

\* Lines with a timestamp and an operation, and every combination of the
\* optional fields after them.
GoodLines == Cat(Cat(Cat(Cat(Stamps, Ops), Fields), Paths), Tails)
\* Lines whose head is blank, malformed or missing.
OddLines == Cat(Cat(Cat(Leads, Stamps \cup BadStamps), Ops \cup BadOps), Rests)
LineInputs == GoodLines \cup OddLines

FileLines == {<<"1", "2", ":", "0", "0", ":", "0", "0", ".", "1", "2", "3", "4", "5", "6", " ", "o", "p", "e", "n", " ", "F", "=", "3", " ", "/", "a", "/", "b", " ", "0", ".", "5", " ", "p", "A">>,
              <<"1", "2", ":", "0", "0", ":", "0", "1", ".", "5", " ", "c", "l", "o", "s", "e", " ", "F", "=", "3", " ", "0", ".", "2", "5", " ", "p", "B">> \o <<"\r">>,
              <<"g", "a", "r", "b", "a", "g", "e", " ", "t", "e", "x", "t">>,
              <<>>}

RECURSIVE FilesOf(_)
FilesOf(n) ==
  IF n = 1 THEN FileLines ELSE {f \o <<"\n">> \o l : f \in FilesOf(n - 1), l \in FileLines}

FileInputs == UNION {FilesOf(n) : n \in 1..MaxLines}

\* ------------------------------------------------------------- SpecLine
NoCall == <<>>

LineIdle == line = <<>> /\ lastCall = NoCall /\ prevCall = NoCall
FileIdle == fileContent = <<>> /\ fileCall = NoCall
BinIdle == binSizeMs = 1000 /\ binCall = NoCall
FilterIdle == fd = <<>> /\ filterCall = NoCall /\ againCall = NoCall
ComposeIdle == pathPattern = <<>> /\ caseSensitive = FALSE /\ composeCall = NoCall
\* The page as it is constructed: +page.svelte lines 11..25, and no chart yet.
PageIdle ==
  /\ allEntries = <<>> /\ filteredEntries = <<>>
  /\ fdFilter = <<>> /\ pathFilter = <<>> /\ binSize = 1000
  /\ filterTimeout = "undefined" /\ changes = 0
ChartIdle == opChart = NoCall /\ durChart = NoCall /\ typesChart = NoCall /\ showPoints = FALSE
\* +page.svelte lines 14..16, and no handleFileUpload call yet.
LoadIdle ==
  /\ fileName = <<>> /\ isLoading = FALSE /\ loadingProgress = 0
  /\ reading = <<>> /\ timers = <<>> /\ loads = 0
RestIdle ==
  /\ ComposeIdle /\ statsCall = NoCall /\ mapCall = NoCall
  /\ PageIdle /\ ChartIdle /\ LoadIdle

InitLine ==
  /\ clock = 0
  /\ line \in LineInputs
  /\ lastCall = NoCall
  /\ prevCall = NoCall
  /\ FileIdle /\ entries = <<>> /\ BinIdle /\ FilterIdle /\ RestIdle

ParseLineCall ==
  /\ lastCall' = <<[day |-> clock, result |-> parseLine(line, clock)]>>
  /\ prevCall' = lastCall
  /\ UNCHANGED <<clock, line, fileVars, entries, binVars, filterVars, restVars>>

\* Midnight passes.
Tick ==
  /\ clock < MaxDay
  /\ clock' = clock + 1
  /\ UNCHANGED <<lineVars, fileVars, entries, binVars, filterVars, restVars>>

NextLine == ParseLineCall \/ Tick
SpecLine == InitLine /\ [][NextLine]_vars

\* ------------------------------------------------------------- SpecFile
InitFile ==
  /\ clock = 0
  /\ fileContent \in FileInputs
  /\ fileCall = NoCall
  /\ LineIdle /\ entries = <<>> /\ BinIdle /\ FilterIdle /\ RestIdle

\* parseLogFile(content) with the batch size `size`, once per loaded text as
\* handleFileUpload calls it; midnight may pass while it runs.
ParseLogFileCall ==
  /\ fileCall = NoCall
  /\ \E size \in (1..MaxBatch) \cup {batchSize} :
       \E roll \in 0..Len(split(fileContent, "\n")) :
         /\ roll < Len(split(fileContent, "\n")) => clock < MaxDay
         /\ fileCall' = <<[size |-> size, day |-> clock, roll |-> roll,
                           result |-> parseLogFileBy(fileContent, size, clock, roll)]>>
         /\ clock' = DayAt(clock, roll, Len(split(fileContent, "\n")) - 1)
  /\ UNCHANGED <<fileContent, lineVars, entries, binVars, filterVars, restVars>>

NextFile == ParseLogFileCall \/ Tick
SpecFile == InitFile /\ [][NextFile]_vars
\* ------------------------------------------------------------- SpecBin
\* Entries as parseLine returns them, at 12:00:00.000 and 50, 300 and 1200
\* milliseconds later.
Noon == 12 * 3600000
Entry(ms, op, f, p, proc) ==
  [timestamp |-> Noon + ms, operation |-> op, fileDescriptor |-> f, bytes |-> Null,
   device |-> Null, path |-> p, duration |-> Decimal(5, 5), process |-> proc]
EntryA == Entry(0, <<"o", "p", "e", "n">>, <<"3">>, <<"/", "U", "s", "e", "r", "s", "/", "x", "/", "f", "i", "l", "e", ".", "t", "x", "t">>, <<"p", "A">>)
EntryB == Entry(50, <<"r", "e", "a", "d">>, <<"3">>, Null, <<"p", "B">>)
EntryC == Entry(300, <<"o", "p", "e", "n">>, <<"0", "7">>, <<"/", "u", "s", "e", "r", "s", "/", "X", "/", "M", "y", " ", "D", "o", "c", "s", "/", "b">>, <<"p", "A">>)
EntryD == Entry(1200, <<"c", "l", "o", "s", "e">>, Null, <<"/", "t", "m", "p", "/", "a">>, <<"p", "A">>)
SampleEntries == {EntryA, EntryB, EntryC, EntryD}

RECURSIVE SeqsOf(_, _)
SeqsOf(S, n) == IF n = 0 THEN {<<>>} ELSE {Append(q, x) : q \in SeqsOf(S, n - 1), x \in S}
Collections == UNION {SeqsOf(SampleEntries, n) : n \in 0..MaxEntries}

\* The slider's 0.1 and 1.0 seconds, and widths no slider gives.
BinSizes == {100, 1000, 0, -1000}

InitBin ==
  /\ clock = 0
  /\ entries \in Collections
  /\ binSizeMs \in BinSizes
  /\ binCall = NoCall
  /\ LineIdle /\ FileIdle /\ FilterIdle /\ RestIdle

BinByTimeCall ==
  /\ binCall' = <<binByTime(entries, binSizeMs)>>
  /\ UNCHANGED <<clock, lineVars, fileVars, entries, binSizeMs, filterVars, restVars>>

NextBin == BinByTimeCall
SpecBin == InitBin /\ [][NextBin]_vars

\* ------------------------------------------------------------- SpecFilter
FdValues == {<<"3">>, <<"7">>, <<"0", "7">>, Null}

InitFilter ==
  /\ clock = 0
  /\ entries \in Collections
  /\ fd \in FdValues
  /\ filterCall = NoCall
  /\ againCall = NoCall
  /\ LineIdle /\ FileIdle /\ BinIdle /\ RestIdle

FilterByFileDescriptorCall ==
  /\ filterCall' = <<filterByFileDescriptor(entries, fd)>>
  /\ againCall' = NoCall
  /\ UNCHANGED <<clock, lineVars, fileVars, entries, binVars, fd, restVars>>

FilterAgainCall ==
  /\ filterCall # NoCall
  /\ againCall' = <<filterByFileDescriptor(filterCall[1], fd)>>
  /\ UNCHANGED <<clock, lineVars, fileVars, entries, binVars, fd, filterCall, restVars>>

NextFilter == FilterByFileDescriptorCall \/ FilterAgainCall
SpecFilter == InitFilter /\ [][NextFilter]_vars
\* ------------------------------------------------------------- SpecCompose
Patterns == {<<"u", "s", "e", "r", "s">>, <<"U", "s", "e", "r", "s">>, <<"/">>, <<"d", "o", "c", "s", "/", "b">>, <<>>}

InitCompose ==
  /\ clock = 0
  /\ entries \in Collections
  /\ fd \in FdValues
  /\ pathPattern \in Patterns
  /\ caseSensitive \in BOOLEAN
  /\ composeCall = NoCall
  /\ filterCall = NoCall /\ againCall = NoCall
  /\ LineIdle /\ FileIdle /\ BinIdle
  /\ statsCall = NoCall /\ mapCall = NoCall /\ PageIdle /\ ChartIdle /\ LoadIdle

\* The file-descriptor filter, then the path filter on its result.
FdThenPathCall ==
  /\ composeCall' = <<[order  |-> "fdThenPath",
                       result |-> filterByPath(filterByFileDescriptor(entries, fd),
                                               pathPattern, caseSensitive)]>>
  /\ UNCHANGED <<clock, lineVars, fileVars, entries, binVars, filterVars,
                 pathPattern, caseSensitive, statsCall, mapCall, pageVars, chartVars, loadVars>>

\* The path filter, then the file-descriptor filter on its result.
PathThenFdCall ==
  /\ composeCall' = <<[order  |-> "pathThenFd",
                       result |-> filterByFileDescriptor(
                                    filterByPath(entries, pathPattern, caseSensitive), fd)]>>
  /\ UNCHANGED <<clock, lineVars, fileVars, entries, binVars, filterVars,
                 pathPattern, caseSensitive, statsCall, mapCall, pageVars, chartVars, loadVars>>

NextCompose == FdThenPathCall \/ PathThenFdCall
SpecCompose == InitCompose /\ [][NextCompose]_vars

\* ------------------------------------------------------------- SpecStats
\* Twelve entries with twelve operations; every second one has no file
\* descriptor, every third one no path.
RECURSIVE NumText(_)
NumText(k) == IF k < 10 THEN <<DigitChars[k + 1]>> ELSE NumText(k \div 10) \o <<DigitChars[(k % 10) + 1]>>
ManyCount == 12
ManyEntry(k) ==
  [timestamp |-> Noon + 10 * k, operation |-> <<"o", "p">> \o NumText(k),
   fileDescriptor |-> IF k % 2 = 0 THEN Null ELSE NumText(k),
   bytes |-> Null, device |-> Null,
   path |-> IF k % 3 = 0 THEN Null ELSE <<"/", "f", "/">> \o NumText(k % 4),
   duration |-> Decimal(5, 5), process |-> <<"p", "A">>]
\* The first n of them, followed by the r-th once more.
ManyEntries(n, r) == [i \in 1..(n + 1) |-> IF i <= n THEN ManyEntry(i) ELSE ManyEntry(r)]
LongCollections == {ManyEntries(n, r) : n \in {TopCount, TopCount + 1, ManyCount}, r \in {1, 5, TopCount}}

InitStats ==
  /\ clock = 0
  /\ entries \in Collections \cup LongCollections
  /\ statsCall = NoCall
  /\ LineIdle /\ FileIdle /\ BinIdle /\ FilterIdle
  /\ ComposeIdle /\ mapCall = NoCall /\ PageIdle /\ ChartIdle /\ LoadIdle

GetSummaryStatsCall ==
  /\ statsCall' = <<getSummaryStats(entries)>>
  /\ UNCHANGED <<clock, lineVars, fileVars, entries, binVars, filterVars,
                 composeVars, mapCall, pageVars, chartVars, loadVars>>

NextStats == GetSummaryStatsCall
SpecStats == InitStats /\ [][NextStats]_vars

\* ------------------------------------------------------------- SpecMap
\* Entries of processes "A", "B", "p" and "p::1" on the descriptors 5 and 1.
MapEntry(ms, proc, f, p) ==
  [timestamp |-> Noon + ms, operation |-> <<"r", "e", "a", "d">>, fileDescriptor |-> f,
   bytes |-> Null, device |-> Null, path |-> p, duration |-> Decimal(5, 5), process |-> proc]
MapEntries ==
  {MapEntry(0, <<"A">>, <<"5">>, <<"/", "a">>),
   MapEntry(10, <<"B">>, <<"5">>, <<"/", "a">>),
   MapEntry(20, <<"A">>, <<"5">>, <<"/", "b">>),
   MapEntry(30, <<"p", ":", ":", "1">>, <<"5">>, <<"/", "a">>),
   MapEntry(40, <<"p">>, <<"1">>, <<"/", "b">>),
   MapEntry(50, <<"A">>, Null, <<"/", "a">>),
   MapEntry(60, <<"B">>, <<"5">>, Null)}
MapCollections == UNION {SeqsOf(MapEntries, n) : n \in 0..MaxEntries}

InitMap ==
  /\ clock = 0
  /\ entries \in MapCollections
  /\ mapCall = NoCall
  /\ LineIdle /\ FileIdle /\ BinIdle /\ FilterIdle
  /\ ComposeIdle /\ statsCall = NoCall /\ PageIdle /\ ChartIdle /\ LoadIdle

BuildFdToPathsMapCall ==
  /\ mapCall' = <<buildFdToPathsMap(entries)>>
  /\ UNCHANGED <<clock, lineVars, fileVars, entries, binVars, filterVars,
                 composeVars, statsCall, pageVars, chartVars, loadVars>>

NextMap == BuildFdToPathsMapCall
SpecMap == InitMap /\ [][NextMap]_vars

\* ------------------------------------------------------------- SpecPage
\* What parseLogFile returned for the file chosen: no entry, or entries.
PageFiles == {<<>>, <<EntryA, EntryB, EntryC>>, <<EntryC, EntryD>>}
\* What the user types into the path filter.
PagePatterns == {<<>>, <<"u", "s", "e", "r", "s">>, <<"t", "m", "p">>, <<" ">>}
\* Positions of the bin-size slider.
PageBinSizes == {1000, 500}
\* The options of the descriptor select: '' and availableFds.
FdOptions(all) == {<<>>} \cup {all[i].fileDescriptor : i \in {k \in 1..Len(all) : Truthy(all[k].fileDescriptor)}}

InitPage ==
  /\ clock = 0
  /\ PageIdle /\ ChartIdle /\ LoadIdle
  /\ entries = <<>>
  /\ LineIdle /\ FileIdle /\ BinIdle /\ FilterIdle
  /\ ComposeIdle /\ statsCall = NoCall /\ mapCall = NoCall

notLoad == <<clock, lineVars, fileVars, entries, binVars, filterVars, composeVars, statsCall, mapCall>>
notPage == <<notLoad, loadVars>>

\* The charts after the page's update reached them.  They exist while
\* allEntries is not empty ({#if allEntries.length > 0}); onMount draws them;
\* OperationChart's reactive statement reads entries and binSizeSeconds,
\* DurationChart's read entries and showPoints, OperationTypesChart's reads
\* entries; onDestroy destroys the chart.
ChartsUpdate(wasMounted, entriesSet, binSet) ==
  IF Len(allEntries') = 0
  THEN opChart' = NoCall /\ durChart' = NoCall /\ typesChart' = NoCall /\ showPoints' = FALSE
  ELSE /\ opChart' = IF ~wasMounted \/ entriesSet \/ binSet
                     THEN updateChart(IF wasMounted THEN opChart ELSE NoCall,
                                      filteredEntries', binSize')
                     ELSE opChart
       /\ durChart' = IF ~wasMounted \/ entriesSet
                      THEN updateChart(IF wasMounted THEN durChart ELSE NoCall,
                                       filteredEntries', binSize')
                      ELSE durChart
       /\ typesChart' = IF ~wasMounted \/ entriesSet
                        THEN updateTypesChart(IF wasMounted THEN typesChart ELSE NoCall,
                                              filteredEntries')
                        ELSE typesChart
       /\ showPoints' = IF wasMounted THEN showPoints ELSE FALSE

\* handleFileUpload from line 43 on, no await in it: allEntries is set,
\* resetFilters runs, then the reactive statement and the charts.
HandleFileUpload ==
  /\ changes < MaxChanges
  /\ \E file \in PageFiles :
       LET r == ReactiveFilter(file, file, <<>>, <<>>, "undefined")
       IN  /\ allEntries' = file
           /\ fdFilter' = <<>> /\ pathFilter' = <<>> /\ binSize' = 1000
           /\ filteredEntries' = r.filteredEntries
           /\ filterTimeout' = r.filterTimeout
  /\ changes' = changes + 1
  /\ ChartsUpdate(Len(allEntries) > 0, TRUE, binSize # 1000)
  /\ UNCHANGED notPage

\* The user picks an option of the descriptor select.
SetFdFilter ==
  /\ changes < MaxChanges
  /\ Len(allEntries) > 0
  /\ \E v \in FdOptions(allEntries) \ {fdFilter} :
       LET r == ReactiveFilter(allEntries, filteredEntries, v, pathFilter, filterTimeout)
       IN  /\ fdFilter' = v
           /\ filteredEntries' = r.filteredEntries
           /\ filterTimeout' = r.filterTimeout
           /\ UNCHANGED <<allEntries, pathFilter, binSize>>
           /\ ChartsUpdate(TRUE, r.assigned, FALSE)
  /\ changes' = changes + 1
  /\ UNCHANGED notPage

\* The user edits the path filter.
SetPathFilter ==
  /\ changes < MaxChanges
  /\ Len(allEntries) > 0
  /\ \E v \in PagePatterns \ {pathFilter} :
       LET r == ReactiveFilter(allEntries, filteredEntries, fdFilter, v, filterTimeout)
       IN  /\ pathFilter' = v
           /\ filteredEntries' = r.filteredEntries
           /\ filterTimeout' = r.filterTimeout
           /\ UNCHANGED <<allEntries, fdFilter, binSize>>
           /\ ChartsUpdate(TRUE, r.assigned, FALSE)
  /\ changes' = changes + 1
  /\ UNCHANGED notPage

\* The user moves the bin-size slider.
SetBinSize ==
  /\ changes < MaxChanges
  /\ Len(allEntries) > 0
  /\ \E v \in PageBinSizes \ {binSize} : binSize' = v
  /\ UNCHANGED <<allEntries, filteredEntries, fdFilter, pathFilter, filterTimeout>>
  /\ ChartsUpdate(TRUE, FALSE, TRUE)
  /\ changes' = changes + 1
  /\ UNCHANGED notPage

\* The Reset Filters button: resetFilters, then the reactive statement.
ResetFilters ==
  /\ changes < MaxChanges
  /\ Len(allEntries) > 0
  /\ LET r == ReactiveFilter(allEntries, allEntries, <<>>, <<>>, "undefined")
     IN  /\ fdFilter' = <<>> /\ pathFilter' = <<>> /\ binSize' = 1000
         /\ filteredEntries' = r.filteredEntries
         /\ filterTimeout' = r.filterTimeout
  /\ UNCHANGED allEntries
  /\ ChartsUpdate(TRUE, TRUE, binSize # 1000)
  /\ changes' = changes + 1
  /\ UNCHANGED notPage

\* The 300 ms timer fires: its callback runs; filterTimeout keeps the id of
\* the timer, which is no longer pending.
TimerCallbackRuns ==
  /\ filterTimeout = "pending"
  /\ filteredEntries' = TimerCallback(allEntries, filteredEntries, fdFilter, pathFilter)
  /\ filterTimeout' = "fired"
  /\ UNCHANGED <<allEntries, fdFilter, pathFilter, binSize, changes>>

\* The callback, then the charts' update with the new filteredEntries.
TimerFire ==
  /\ TimerCallbackRuns
  /\ ChartsUpdate(Len(allEntries) > 0, TRUE, FALSE)
  /\ UNCHANGED notPage

\* The user ticks or unticks "Show data points" of DurationChart.
ToggleShowPoints ==
  /\ changes < MaxChanges
  /\ Len(allEntries) > 0
  /\ showPoints' = ~showPoints
  /\ durChart' = updateChart(durChart, filteredEntries, binSize)
  /\ changes' = changes + 1
  /\ UNCHANGED <<allEntries, filteredEntries, fdFilter, pathFilter, binSize, filterTimeout, opChart, typesChart>>
  /\ UNCHANGED notPage

NextPage ==
  \/ HandleFileUpload
  \/ SetFdFilter
  \/ SetPathFilter
  \/ SetBinSize
  \/ ResetFilters
  \/ TimerFire
  \/ ToggleShowPoints
SpecPage == InitPage /\ [][NextPage]_vars
\* A timer that is pending fires: setTimeout runs its callback unless
\* clearTimeout cancels it.
FairPage == SpecPage /\ WF_pageVars(TimerCallbackRuns)

\* ------------------------------------------------------------- SpecLoad
\* The files the user can select: their names and what parseLogFile returns
\* for their text.
LoadFiles ==
  {[name |-> <<"a">>, entries |-> <<EntryA, EntryB, EntryC>>],
   [name |-> <<"b">>, entries |-> <<EntryC, EntryD>>],
   [name |-> <<"e">>, entries |-> <<>>]}

InitLoad == InitPage

\* The sequence q without its i-th element.
Without(q, i) == SubSeq(q, 1, i - 1) \o SubSeq(q, i + 1, Len(q))

\* handleFileUpload up to its first await (lines 28..38): a file was selected.
StartLoad ==
  /\ loads < MaxLoads
  /\ \E file \in LoadFiles :
       /\ fileName' = file.name
       /\ reading' = Append(reading, file)
  /\ isLoading' = TRUE
  /\ loadingProgress' = 0
  /\ loads' = loads + 1
  /\ UNCHANGED <<timers, pageVars, chartVars, notLoad>>

\* file.text() of one of the calls resolves (lines 38..42): the call goes on
\* to await its setTimeout(0).
TextResolves ==
  /\ \E i \in 1..Len(reading) :
       /\ timers' = Append(timers, reading[i])
       /\ reading' = Without(reading, i)
  /\ loadingProgress' = 30
  /\ UNCHANGED <<fileName, isLoading, loads, pageVars, chartVars, notLoad>>

\* file.text() of one of the calls rejects: catch (lines 58..60), then
\* finally (line 62).
TextRejects ==
  /\ \E i \in 1..Len(reading) : reading' = Without(reading, i)
  /\ isLoading' = FALSE
  /\ UNCHANGED <<fileName, loadingProgress, timers, loads, pageVars, chartVars, notLoad>>

\* The oldest setTimeout(0) fires: lines 43..57 and finally (line 62), then
\* the reactive statement.
LoadResumes ==
  /\ Len(timers) > 0
  /\ LET file == Head(timers)
         r == ReactiveFilter(file.entries, file.entries, <<>>, <<>>, "undefined")
     IN  /\ allEntries' = file.entries
         /\ fdFilter' = <<>> /\ pathFilter' = <<>> /\ binSize' = 1000
         /\ filteredEntries' = r.filteredEntries
         /\ filterTimeout' = r.filterTimeout
  /\ timers' = Tail(timers)
  /\ loadingProgress' = 100
  /\ isLoading' = FALSE
  /\ UNCHANGED <<fileName, reading, loads, changes>>

\* The rest of handleFileUpload, then the charts' update with the new
\* entries.
LoadCompletes ==
  /\ LoadResumes
  /\ ChartsUpdate(Len(allEntries) > 0, TRUE, binSize # 1000)
  /\ UNCHANGED notLoad

NextLoad ==
  \/ StartLoad
  \/ TextResolves
  \/ TextRejects
  \/ LoadCompletes
SpecLoad == InitLoad /\ [][NextLoad]_vars
\* A promise that is pending settles and a timer that is pending fires.
FairLoad == SpecLoad /\ WF_loadVars(TextResolves \/ TextRejects) /\ WF_loadVars(LoadResumes)

\* ------------------------------------------------------------- claims
Range(q) == {q[i] : i \in 1..Len(q)}
Count(q, x) == Cardinality({i \in 1..Len(q) : q[i] = x})
RECURSIVE Sum(_)
Sum(q) == IF q = <<>> THEN 0 ELSE Head(q) + Sum(Tail(q))
\* Whether q is p with some elements left out, the rest in p's order.
RECURSIVE IsSubSeq(_, _)
IsSubSeq(q, p) ==
  IF q = <<>> THEN TRUE
  ELSE IF p = <<>> THEN FALSE
  ELSE IF Head(q) = Head(p) THEN IsSubSeq(Tail(q), Tail(p))
  ELSE IsSubSeq(q, Tail(p))

\* C1: for a positive bin width binByTime partitions the collection: the bin
\* sizes sum to the number of entries, every entry is in the bins exactly as
\* often as in the collection, and an empty collection gives an empty mapping.
C1_BinsPartition ==
  (binCall # NoCall /\ binSizeMs > 0) =>
    LET bins == binCall[1].bins
    IN  /\ ~binCall[1].raised
        /\ Sum([i \in 1..Len(bins) |-> Len(bins[i].entries)]) = Len(entries)
        /\ \A e \in Range(entries) :
             Sum([i \in 1..Len(bins) |-> Count(bins[i].entries, e)]) = Count(entries, e)
        /\ \A i \in 1..Len(bins) : Range(bins[i].entries) \subseteq Range(entries)
        /\ entries = <<>> => bins = <<>>

\* C1 witness: three entries were binned into two or more bins, one of them
\* holding two entries.
C1_Witness ==
  /\ binCall # NoCall /\ binSizeMs > 0
  /\ Len(entries) = 3
  /\ Len(binCall[1].bins) >= 2
  /\ \E i \in 1..Len(binCall[1].bins) : Len(binCall[1].bins[i].entries) = 2

\* C2: for a positive bin width every entry of the bin that starts at s has
\* s <= timestamp < s + width.
C2_EntryWithinBin ==
  (binCall # NoCall /\ binSizeMs > 0) =>
    \A i \in 1..Len(binCall[1].bins) :
      \A e \in Range(binCall[1].bins[i].entries) :
        /\ binCall[1].bins[i].start <= e.timestamp
        /\ e.timestamp < binCall[1].bins[i].start + binSizeMs

\* C3: binByTime called with a bin width of zero or less fails with an error.
C3_InvalidWidthFails ==
  (binCall # NoCall /\ binSizeMs <= 0) => binCall[1].raised

\* C10: filterByFileDescriptor(E, fd) is E with entries left out, every entry
\* of it has fileDescriptor equal to fd, and filtering it again changes nothing.
C10_FilterByFd ==
  (filterCall # NoCall) =>
    /\ IsSubSeq(filterCall[1], entries)
    /\ \A e \in Range(filterCall[1]) : e.fileDescriptor = fd
    /\ againCall # NoCall => againCall[1] = filterCall[1]

\* C10 witness: the filter kept some entries and dropped others, and was
\* applied a second time.
C10_Witness ==
  /\ filterCall # NoCall /\ againCall # NoCall
  /\ Len(filterCall[1]) >= 1
  /\ Len(filterCall[1]) < Len(entries)

\* ------------------------------------------------------------- claims on parseLine
\* The index of the first character of l that is not blank (Len(l) + 1 when
\* every character is blank).
FirstInk(l) == Min({i \in 1..Len(l) : ~IsWs(l[i])} \cup {Len(l) + 1})
\* The index of the last character of l that is not blank (0 when every
\* character is blank).
LastInk(l) == Max({i \in 1..Len(l) : ~IsWs(l[i])} \cup {0})

\* HH:MM:SS.<digit> is written in l from index i on.
StampAt(l, i) ==
  /\ i + 9 <= Len(l)
  /\ \A k \in {0, 1, 3, 4, 6, 7, 9} : IsDigit(l[i + k])
  /\ l[i + 2] = ":" /\ l[i + 5] = ":" /\ l[i + 8] = "."

\* Text that is not blank follows the timestamp written at i: some character
\* after the fraction's digits is not blank.
HasOperation(l, i) ==
  \E j \in (i + 10)..Len(l) :
    /\ ~IsWs(l[j])
    /\ \E k \in (i + 10)..j : ~IsDigit(l[k])

\* The lines the parser is to reject: blank ones, ones that do not start with
\* a timestamp, ones with nothing after the timestamp.
Rejected(l) ==
  \/ FirstInk(l) > Len(l)
  \/ ~StampAt(l, FirstInk(l))
  \/ ~HasOperation(l, FirstInk(l))

\* C4: parseLine raises on no line, returns null exactly for the lines that
\* are blank, do not start with an HH:MM:SS.<digits> timestamp or have no
\* operation after the timestamp, and returns an entry for every other line.
C4_NullExactlyWhenRejected ==
  (lastCall # NoCall) =>
    /\ ~lastCall[1].result.raised
    /\ (lastCall[1].result.entry = <<>>) <=> Rejected(line)

\* C4 witness: a line that holds a timestamp and nothing after it was parsed
\* to null.
C4_Witness ==
  /\ lastCall # NoCall
  /\ lastCall[1].result.entry = <<>>
  /\ FirstInk(line) <= Len(line)
  /\ StampAt(line, FirstInk(line))
  /\ ~HasOperation(line, FirstInk(line))

\* The text of the line after its timestamp and its operation, as parseLine
\* searches it for the fields.
Remainder(l) ==
  LET line0 == trim(l)
      line1 == trim(slice(line0, Len(timestampMatch(line0))))
  IN  trim(slice(line1, Len(operationMatch(line1))))

\* C6: two calls of parseLine with the same line return the same result,
\* whenever each call is made.
C6_SameLineSameEntry ==
  (lastCall # NoCall /\ prevCall # NoCall) => lastCall[1].result = prevCall[1].result

\* C7: for a line that ends with a duration and a process, the path is the text
\* from the first "/" of the remainder up to the duration, and null when the
\* line holds no "/".
C7_PathUpToDuration ==
  (lastCall # NoCall /\ lastCall[1].result.entry # <<>>) =>
    LET rest == Remainder(line)
        dm == durationMatch(rest)
        slashes == {i \in 1..Len(rest) : rest[i] = "/" /\ i < dm.index}
        path == lastCall[1].result.entry[1].path
    IN  dm.ok =>
          /\ slashes # {} => path = trim(SubSeq(rest, Min(slashes), dm.index - 1))
          /\ (\A i \in 1..Len(line) : line[i] # "/") => path = Null

\* The lines "<decimal> <token>" ends: the last word, blanks before it, and
\* before them digits, a "." and digits.  Read from the end of the line.
PairProcessStart(s) == Max({i \in 1..LastInk(s) : IsWs(s[i])} \cup {0}) + 1
PairDurationEnd(s) == LastInk(SubSeq(s, 1, PairProcessStart(s) - 1))
PairFractionStart(s) ==
  Max({i \in 1..PairDurationEnd(s) : ~IsDigit(s[i])} \cup {0}) + 1
PairDurationStart(s) ==
  Max({i \in 1..(PairFractionStart(s) - 2) : ~IsDigit(s[i])} \cup {0}) + 1
HasTrailingPair(s) ==
  /\ LastInk(s) > 0
  /\ PairDurationEnd(s) > 0
  /\ PairFractionStart(s) <= PairDurationEnd(s)
  /\ PairFractionStart(s) >= 3
  /\ s[PairFractionStart(s) - 1] = "."
  /\ PairDurationStart(s) <= PairFractionStart(s) - 2

\* C8: every returned entry has a timestamp, an operation, a duration of zero
\* or more and a process; a line with a timestamp and an operation that does
\* not end with "<decimal> <token>" gives duration 0.0 and process "unknown",
\* and one that does gives that decimal and that token.
C8_DurationProcessDefaults ==
  (lastCall # NoCall /\ lastCall[1].result.entry # <<>>) =>
    LET e == lastCall[1].result.entry[1]
        rest == Remainder(line)
    IN  /\ e.timestamp # NaN
        /\ e.operation # <<>> /\ e.operation # Null
        /\ e.duration.num >= 0
        /\ e.process # <<>> /\ e.process # Null
        /\ IF HasTrailingPair(rest)
           THEN /\ e.process = SubSeq(rest, PairProcessStart(rest), LastInk(rest))
                /\ e.duration = parseFloat(SubSeq(rest, PairDurationStart(rest), PairDurationEnd(rest)))
           ELSE /\ e.duration = Decimal(0, 0)
                /\ e.process = UNKNOWN

\* C8 witness: a line whose remainder holds a decimal but does not end with
\* "<decimal> <token>" was parsed to an entry.
C8_Witness ==
  /\ lastCall # NoCall /\ lastCall[1].result.entry # <<>>
  /\ ~HasTrailingPair(Remainder(line))
  /\ \E i \in 1..Len(Remainder(line)) : Remainder(line)[i] = "."
  /\ lastCall[1].result.entry[1].process = UNKNOWN

\* The words of s: the texts between its single spaces.
Words(s) == split(s, " ")
IsDigits(w) == w # <<>> /\ \A i \in 1..Len(w) : IsDigit(w[i])
IsDecimal(w) ==
  \E p \in 2..(Len(w) - 1) :
    w[p] = "." /\ IsDigits(SubSeq(w, 1, p - 1)) /\ IsDigits(SubSeq(w, p + 1, Len(w)))
IsToken(w) == w # <<>> /\ \A i \in 1..Len(w) : ~IsWs(w[i])
\* "<HH:MM:SS.fff...> <op> F=<n> <path> <duration> <process>" with a path that
\* starts with "/" and holds no blank.
WellFormed(l) ==
  LET w == Words(l)
  IN  /\ Len(w) = 6
      /\ \A i \in 1..6 : IsToken(w[i])
      /\ StampAt(w[1], 1) /\ Len(w[1]) >= 12 /\ IsDigits(SubSeq(w[1], 10, Len(w[1])))
      /\ Len(w[3]) >= 3 /\ w[3][1] = "F" /\ w[3][2] = "=" /\ IsDigits(SubSeq(w[3], 3, Len(w[3])))
      /\ w[4][1] = "/"
      /\ IsDecimal(w[5])

\* C9: a well-formed line gives operation, fileDescriptor, path, duration and
\* process as written, bytes and device null, and a timestamp at HH:MM:SS with
\* the first three digits of the fraction as milliseconds.
C9_WellFormedLineFields ==
  (lastCall # NoCall /\ WellFormed(line)) =>
    LET w == Words(line)
        r == lastCall[1].result
    IN  /\ ~r.raised /\ r.entry # <<>>
        /\ r.entry[1] =
             [timestamp      |-> lastCall[1].day * DayMs
                                   + DigitsValue(SubSeq(w[1], 1, 2)) * 3600000
                                   + DigitsValue(SubSeq(w[1], 4, 5)) * 60000
                                   + DigitsValue(SubSeq(w[1], 7, 8)) * 1000
                                   + DigitsValue(SubSeq(w[1], 10, 12)),
              operation      |-> w[2],
              fileDescriptor |-> SubSeq(w[3], 3, Len(w[3])),
              bytes          |-> Null,
              device         |-> Null,
              path           |-> w[4],
              duration       |-> parseFloat(w[5]),
              process        |-> w[6]]

\* ------------------------------------------------------------- claims on parseLogFile
\* The indices of the line breaks of text c, and its lines: the texts between
\* one break (or the start) and the next break (or the end).
Breaks(c) == {i \in 1..Len(c) : c[i] = "\n"}
LineStart(c, n) == IF n = 1 THEN 1 ELSE 1 + CHOOSE b \in Breaks(c) : Cardinality({x \in Breaks(c) : x < b}) = n - 2
LineEnd(c, n) ==
  IF n = Cardinality(Breaks(c)) + 1 THEN Len(c)
  ELSE (CHOOSE b \in Breaks(c) : Cardinality({x \in Breaks(c) : x < b}) = n - 1) - 1
LineOf(c, n) == SubSeq(c, LineStart(c, n), LineEnd(c, n))

\* The entries parseLine returns for lines 1..n of c, in the lines' order.
RECURSIVE AcceptedUpTo(_, _, _, _)
AcceptedUpTo(c, n, day, roll) ==
  IF n = 0 THEN <<>>
  ELSE AcceptedUpTo(c, n - 1, day, roll) \o parseLine(LineOf(c, n), DayAt(day, roll, n - 1)).entry

\* C5: parseLogFile returns the entries parseLine returns for the lines of the
\* content, in line order, whatever the batch size.
C5_FileIsLinesInOrder ==
  (fileCall # NoCall) =>
    /\ ~fileCall[1].result.raised
    /\ fileCall[1].result.entries =
         AcceptedUpTo(fileContent, Cardinality(Breaks(fileContent)) + 1,
                      fileCall[1].day, fileCall[1].roll)

\* C5 witness: a text of three lines was parsed in batches of two lines, one
\* line was dropped and two entries were returned.
C5_Witness ==
  /\ fileCall # NoCall
  /\ fileCall[1].size = 2
  /\ Cardinality(Breaks(fileContent)) = 2
  /\ Len(fileCall[1].result.entries) = 2

\* ------------------------------------------------------------- claims on the filters
\* Two characters that differ by case at most.
SameLetter(a, b) ==
  \/ a = b
  \/ \E i \in 1..26 : {a, b} = {UpperChars[i], LowerChars[i]}

\* p is written in s from some index on; letters may differ by case unless
\* exact.
Contains(s, p, exact) ==
  \E i \in 0..(Len(s) - Len(p)) :
    \A k \in 1..Len(p) : IF exact THEN s[i + k] = p[k] ELSE SameLetter(s[i + k], p[k])

\* The entries of es with the descriptor f and a path that contains p, in
\* the order of es.
RECURSIVE BothFilters(_, _, _, _)
BothFilters(es, f, p, exact) ==
  IF es = <<>> THEN <<>>
  ELSE (IF Head(es).fileDescriptor = f /\ Head(es).path # Null /\ Contains(Head(es).path, p, exact)
        THEN <<Head(es)>> ELSE <<>>) \o BothFilters(Tail(es), f, p, exact)

\* C11: the two filters applied in either order give the entries of E, in
\* E's order, that have the descriptor fd and a non-null path containing the
\* pattern (letters compared without case unless case-sensitive is asked).
C11_FiltersComposeAsAnd ==
  (composeCall # NoCall) =>
    /\ composeCall[1].result = BothFilters(entries, fd, pathPattern, caseSensitive)
    /\ filterByPath(filterByFileDescriptor(entries, fd), pathPattern, caseSensitive)
         = filterByFileDescriptor(filterByPath(entries, pathPattern, caseSensitive), fd)

\* C11 witness: the path filter was applied first, without case, and the
\* result holds an entry whose path matches only when case is ignored, while
\* an entry with another descriptor and an entry with the descriptor but no
\* matching path were left out.
C11_Witness ==
  /\ composeCall # NoCall /\ composeCall[1].order = "pathThenFd" /\ ~caseSensitive
  /\ \E e \in Range(composeCall[1].result) : ~Contains(e.path, pathPattern, TRUE)
  /\ \E e \in Range(entries) : e.fileDescriptor # fd
  /\ \E e \in Range(entries) : e.fileDescriptor = fd /\ e.path = Null

\* ------------------------------------------------------------- claims on getSummaryStats
\* C12: getSummaryStats returns null for an empty collection and, for every
\* other collection, an object whose totalEntries is the number of entries.
C12_AbsentOrTotal ==
  (statsCall # NoCall) =>
    IF entries = <<>> THEN statsCall[1] = <<>>
    ELSE statsCall[1] # <<>> /\ statsCall[1][1].totalEntries = Len(entries)

\* C12 witness: the statistics of a collection of three entries were taken.
C12_Witness ==
  /\ statsCall # NoCall /\ Len(entries) = 3
  /\ statsCall[1] # <<>> /\ statsCall[1][1].totalEntries = 3

\* The number of entries of es that satisfy has.
Populated(es, has(_)) == Cardinality({i \in 1..Len(es) : has(es[i])})
CountSum(table) == Sum([i \in 1..Len(table) |-> table[i].count])

\* C13: the counts of each full table sum to the number of entries that have
\* the field: every entry for the operations, the entries with a file
\* descriptor, the entries with a path; and each key's count is the number of
\* entries that hold it.
C13_CountsSumToPopulated ==
  (statsCall # NoCall /\ entries # <<>>) =>
    LET s == statsCall[1][1]
        hasFd(e) == e.fileDescriptor # Null
        hasPath(e) == e.path # Null
    IN  /\ CountSum(s.allOperationCounts) = Len(entries)
        /\ CountSum(s.allFdCounts) = Populated(entries, hasFd)
        /\ CountSum(s.allPathCounts) = Populated(entries, hasPath)
        /\ \A i \in 1..Len(s.allOperationCounts) :
             LET isKey(e) == e.operation = s.allOperationCounts[i].key
             IN  s.allOperationCounts[i].count = Populated(entries, isKey)
        /\ \A i \in 1..Len(s.allFdCounts) :
             LET isKey(e) == e.fileDescriptor = s.allFdCounts[i].key
             IN  s.allFdCounts[i].count = Populated(entries, isKey)
        /\ \A i \in 1..Len(s.allPathCounts) :
             LET isKey(e) == e.path = s.allPathCounts[i].key
             IN  s.allPathCounts[i].count = Populated(entries, isKey)

\* C13 witness: a collection with a repeated operation, an entry without a
\* file descriptor and an entry without a path was counted.
C13_Witness ==
  /\ statsCall # NoCall /\ entries # <<>>
  /\ \E i \in 1..Len(statsCall[1][1].allOperationCounts) :
       statsCall[1][1].allOperationCounts[i].count >= 2
  /\ \E e \in Range(entries) : e.fileDescriptor = Null
  /\ \E e \in Range(entries) : e.path = Null
  /\ statsCall[1][1].allFdCounts # <<>> /\ statsCall[1][1].allPathCounts # <<>>

\* The index at which an entry of es first satisfies has.
FirstMet(es, has(_)) == Min({i \in 1..Len(es) : has(es[i])})

\* The table is in descending order of count, and keys of equal count are in
\* the order in which key(e) first takes them in es; top is its first ten
\* pairs, or all of them when there are fewer.
Ranked(table, top, es, key(_)) ==
  /\ \A i, j \in 1..Len(table) :
       i < j =>
         /\ table[i].count >= table[j].count
         /\ table[i].count = table[j].count =>
              LET isI(e) == key(e) = table[i].key
                  isJ(e) == key(e) = table[j].key
              IN  FirstMet(es, isI) < FirstMet(es, isJ)
  /\ Len(top) = (IF Len(table) < 10 THEN Len(table) ELSE 10)
  /\ \A i \in 1..Len(top) : top[i] = table[i]

\* C14: each full ranked list is in descending order of count with equal
\* counts in first-encountered order, and each top-10 list is the first
\* min(10, n) pairs of its full list.
C14_RankedStable ==
  (statsCall # NoCall /\ entries # <<>>) =>
    LET s == statsCall[1][1]
        op(e) == e.operation
        fdOf(e) == e.fileDescriptor
        pathOf(e) == e.path
    IN  /\ Ranked(s.allOperationCounts, s.operationCounts, entries, op)
        /\ Ranked(s.allFdCounts, s.fdCounts, entries, fdOf)
        /\ Ranked(s.allPathCounts, s.pathCounts, entries, pathOf)

\* C14 witness: more than ten operations were ranked, one counted twice and
\* so moved ahead of operations met before it, and the top-10 list is shorter
\* than the full list.
C14_Witness ==
  /\ statsCall # NoCall /\ entries # <<>>
  /\ Len(statsCall[1][1].allOperationCounts) > 10
  /\ Len(statsCall[1][1].operationCounts) = 10
  /\ statsCall[1][1].allOperationCounts[1].count = 2
  /\ statsCall[1][1].allOperationCounts[1].key # entries[1].operation

\* ------------------------------------------------------------- claims on the bins
\* The earliest timestamp of a collection that is not empty.
Earliest(es) == Min({es[i].timestamp : i \in 1..Len(es)})

\* C15: for a positive width every returned bin holds an entry, no two bins
\* start at the same instant, every bin starts at t0 + k * width for an
\* integer k >= 0, t0 being the earliest timestamp, and the bin of the
\* earliest entry starts at t0; entries at t0, t0 + 0.05 s and t0 + 1.2 s with
\* a width of 1.0 s give the bin at t0 with the first two and the bin at
\* t0 + 1.0 s with the third.
C15_SparseBinsFromT0 ==
  (binCall # NoCall /\ binSizeMs > 0 /\ entries # <<>>) =>
    LET bins == binCall[1].bins
        t0 == Earliest(entries)
    IN  /\ \A i \in 1..Len(bins) :
             /\ bins[i].entries # <<>>
             /\ bins[i].start >= t0
             /\ (bins[i].start - t0) % binSizeMs = 0
        /\ \A i, j \in 1..Len(bins) : i # j => bins[i].start # bins[j].start
        /\ \E i \in 1..Len(bins) :
             bins[i].start = t0 /\ \E e \in Range(bins[i].entries) : e.timestamp = t0
        /\ (entries = <<EntryA, EntryB, EntryD>> /\ binSizeMs = 1000) =>
             bins = <<[start |-> Noon, entries |-> <<EntryA, EntryB>>],
                      [start |-> Noon + 1000, entries |-> <<EntryD>>]>>

\* C15 witness: the entries at t0, t0 + 0.05 s and t0 + 1.2 s were binned with
\* a width of 1.0 s.
C15_Witness ==
  /\ binCall # NoCall /\ binSizeMs = 1000
  /\ entries = <<EntryA, EntryB, EntryD>>
  /\ Len(binCall[1].bins) = 2

\* ------------------------------------------------------------- claims on buildFdToPathsMap
\* The indices of the entries the mapping counts: those with a file
\* descriptor and a path.
Counted(es) == {i \in 1..Len(es) : es[i].fileDescriptor # Null /\ es[i].path # Null}
\* The paths, with their numbers of entries, of process proc on descriptor f.
PathCountsOf(es, proc, f) ==
  {<<es[i].path,
     Cardinality({j \in Counted(es) : /\ es[j].process = proc /\ es[j].fileDescriptor = f
                                       /\ es[j].path = es[i].path})>> :
     i \in {k \in Counted(es) : es[k].process = proc /\ es[k].fileDescriptor = f}}

\* C16: the mapping has one group for each pair of process and descriptor, the
\* group holding the paths of that pair's entries alone: entries with the same
\* descriptor and different processes are in different groups.
C16_GroupsPerProcessAndFd ==
  (mapCall # NoCall) =>
    LET groups == mapCall[1]
        pairs == {<<entries[i].process, entries[i].fileDescriptor>> : i \in Counted(entries)}
    IN  /\ Len(groups) = Cardinality(pairs)
        /\ \A pr \in pairs :
             \E i \in 1..Len(groups) :
               {<<groups[i].paths[k].path, groups[i].paths[k].count>> :
                  k \in 1..Len(groups[i].paths)} = PathCountsOf(entries, pr[1], pr[2])

\* C16 witness: entries of processes "A" and "B", both on descriptor 5 and
\* the same path, were grouped into two groups.
C16_Witness ==
  /\ mapCall # NoCall /\ Len(mapCall[1]) = 2
  /\ \E i, j \in Counted(entries) :
       /\ entries[i].process = <<"A">> /\ entries[j].process = <<"B">>
       /\ entries[i].fileDescriptor = <<"5">> /\ entries[j].fileDescriptor = <<"5">>
       /\ entries[i].path = entries[j].path

\* C19: the process and the fd that a group reports are the process and the
\* fileDescriptor of every entry counted in it.
C19_GroupReportsItsPair ==
  (mapCall # NoCall) =>
    \A i \in 1..Len(mapCall[1]) :
      \A j \in Counted(entries) :
        KeyOf(entries[j]) = mapCall[1][i].key =>
          /\ mapCall[1][i].process = entries[j].process
          /\ mapCall[1][i].fd = entries[j].fileDescriptor

\* ------------------------------------------------------------- claims on the page
\* The text p without the blanks around it.
Stripped(p) == SubSeq(p, FirstInk(p), LastInk(p))

\* The entries of all that pass every active filter, in the order of all: a
\* descriptor filter is active when it is not '', a path filter when it is
\* not blank.
RECURSIVE ActiveFilters(_, _, _)
ActiveFilters(all, f, p) ==
  IF all = <<>> THEN <<>>
  ELSE (IF /\ f # <<>> => Head(all).fileDescriptor = f
           /\ Stripped(p) # <<>> =>
                Head(all).path # Null /\ Contains(Head(all).path, Stripped(p), FALSE)
        THEN <<Head(all)>> ELSE <<>>) \o ActiveFilters(Tail(all), f, p)

\* C17: whenever the callback of the debounce timer runs, it leaves in
\* filteredEntries the entries of allEntries that pass every active filter,
\* whatever was filtered before.
C17_CallbackFiltersAllEntries ==
  [][(filterTimeout = "pending" /\ filterTimeout' = "fired") =>
       filteredEntries' = ActiveFilters(allEntries', fdFilter', pathFilter')]_vars

\* C17 witness: after three or more actions of the user the callback has run
\* with both filters active and has kept some entries and dropped others.
C17_Witness ==
  /\ filterTimeout = "fired" /\ changes >= 3
  /\ fdFilter # <<>> /\ Stripped(pathFilter) # <<>>
  /\ filteredEntries # <<>> /\ Len(filteredEntries) < Len(allEntries)

\* C18: while the charts are shown for a collection that is not empty, the
\* bins on OperationChart and on DurationChart are binByTime of the current
\* entries with the current bin width.
C18_ChartsShowCurrentBins ==
  (Len(allEntries) > 0 /\ Len(filteredEntries) > 0) =>
    /\ opChart = <<sortedBins(binByTime(filteredEntries, binSize).bins)>>
    /\ durChart = <<sortedBins(binByTime(filteredEntries, binSize).bins)>>

\* C20: when no timer is pending filteredEntries is the entries of allEntries
\* that pass every active filter, and once the user stops acting it is so
\* for ever: the timer of the last change fires, and no timer that was
\* replaced or cancelled writes a result for other filter values.
C20_FiltersSettle ==
  /\ [](filterTimeout # "pending" =>
          filteredEntries = ActiveFilters(allEntries, fdFilter, pathFilter))
  /\ <>[](filteredEntries = ActiveFilters(allEntries, fdFilter, pathFilter))

\* C20 witness: the user changed a filter while a timer was pending and has
\* no action left, the last timer fired, and the entries shown are the
\* filtered ones, fewer than allEntries.
C20_Witness ==
  /\ changes = MaxChanges /\ filterTimeout = "fired"
  /\ fdFilter # <<>>
  /\ filteredEntries = ActiveFilters(allEntries, fdFilter, pathFilter)
  /\ Len(filteredEntries) < Len(allEntries)

\* ------------------------------------------------------------- claims on the charts
\* The charts that are derived from the collection es: for an empty
\* collection no chart or a chart without data, else the chart of its bins
\* (of a width the slider offers) or of its operation counts.
BinChartsOf(es) ==
  IF es = <<>> THEN {NoCall, <<<<>>>>}
  ELSE {<<sortedBins(binByTime(es, w).bins)>> : w \in PageBinSizes}
TypesChartsOf(es) ==
  IF es = <<>> THEN {NoCall, <<<<>>>>}
  ELSE {<<Top(sort(CountInto(OperationKeys(es), <<>>)))>>}

\* C21: while the charts are on the page, each of the three shows a chart
\* derived from the current entries; when the entries have become empty, no
\* chart shows the data of the collection before.
C21_ChartsFollowEntries ==
  Len(allEntries) > 0 =>
    /\ opChart \in BinChartsOf(filteredEntries)
    /\ durChart \in BinChartsOf(filteredEntries)
    /\ typesChart \in TypesChartsOf(filteredEntries)

\* ------------------------------------------------------------- claims on handleFileUpload
\* No handleFileUpload call is between its start and its end.
NoLoadInProgress == reading = <<>> /\ timers = <<>>

\* C22: once calls were made and none is in progress, fileName names the
\* file whose content is in allEntries, filteredEntries is allEntries and
\* the filters are reset.
C22_LoadedNameAndEntriesAgree ==
  (loads > 0 /\ NoLoadInProgress) =>
    /\ \E file \in LoadFiles : file.name = fileName /\ file.entries = allEntries
    /\ filteredEntries = allEntries
    /\ fdFilter = <<>> /\ pathFilter = <<>> /\ binSize = 1000

\* C23: isLoading is true while a handleFileUpload call is in progress.
C23_LoadingWhileInProgress == ~NoLoadInProgress => isLoading = TRUE
====
